---- MODULE Spec2Model ----
(***************************************************************************)
(* Model of survey/src/nix.rs: the closure crawl all_derivations with its  *)
(* expansion thread (expand_runner), its resolution threads                *)
(* (instantiate_runner), its sink thread (output_runner), the shared       *)
(* SegQueue checkq and the process-wide atomic INFLIGHT.                   *)
(***************************************************************************)
EXTENDS Integers, Sequences, FiniteSets, TLC

\* nix.rs:171  seen.take_max(queue, 30)
BatchCap == 30

\* Largest value of num_cpus::get() explored (nix.rs:230).
MaxCpus == 3

\* Number of inputDrvs of the root in the wide graphs.
WideDeps == 40

\* Result of a nix_instantiate call that failed (nix.rs:84-89).
NoDrv == -1

\* Lines the BufWriter of output_runner holds before it writes to the file.
BufLines == 8

\* nix.rs:160  the largest value of an AtomicI16
I16Max == 32767

\* Constituents of the root beyond I16Max in the scenario "many".
ExtraTargets == 3

\* Longest list of branch specs given to Branches::init.
MaxBranches == 3

\* The graphs the crawl is run on.  Node 0 is the root derivation, the
\* result of nix_instantiate(repo, None).
Scenarios == {"single", "singlev", "wide", "widedup", "foo", "bar", "mixed",
              "twice"}

\* Graphs in which nix prints a path that DrvPath::new rejects: the root, an
\* input of the root, or the derivation of the attribute "foo".
MalformedScenarios == {"badroot", "badinput", "badattr"}

VARIABLES
    scenario,     \* the graph nix answers from (fixed during a crawl)
    ncpu,         \* num_cpus::get()
    checkq,       \* SegQueue<DrvPath> checkq (FIFO)
    INFLIGHT,     \* static INFLIGHT: AtomicI16
    inst_ch,      \* messages in the (inst_tx, inst_rx) channel
    inst_rx,      \* the orchestrator still owns its inst_rx
    out_ch,       \* messages in the (out_tx, out_rx) channel
    e_pc,         \* expand_runner: position
    e_result,     \* expand_runner: return value
    seen,         \* expand_runner: Seen set
    drvs,         \* expand_runner: current batch
    inputs,       \* expand_runner: inputs still to push
    constituents, \* expand_runner: constituents still to dispatch
    w_pc,         \* instantiate_runner per worker: position
    w_attr,       \* instantiate_runner per worker: attribute in hand
    o_pc,         \* output_runner: position
    o_result,     \* output_runner: return value
    outfile,      \* lines written to the temp file
    m_pc,         \* all_derivations: position
    result,       \* all_derivations: return value
    queried,      \* history: batches handed to `nix show-derivation`
    dispatched,   \* history: iterations of the dispatch loop started
    completed,    \* history: nix_instantiate -A calls that have returned
    failed,       \* history: nix_instantiate -A calls that returned Err
    resolved,     \* history: DrvPaths returned by successful nix_instantiate -A
    sent,         \* history: batches handed to scanner.send, in order
    buf,          \* output_runner: lines held in the BufWriter
    disk_ok,      \* writes to the temp file succeed
    io_failed,    \* history: a write to the temp file has failed
    w_result,     \* instantiate_runner per worker: how the thread ended
    specs,        \* Branches::init: the branch specs given
    b_pc,         \* Branches: position (init, scan loop)
    b_specs,      \* Branches.specs as built by Branches::init
    b_result,     \* Branches::init: return value
    s_idx,        \* Branches::scan: index of the current branch
    s_log,        \* history: steps Branches::scan has executed
    sbb,          \* Branches::scan: branches inserted into the result map
    s_result,     \* Branches::scan: return value
    files,        \* vulnix.<name>.json files written
    v_last        \* history: inputs and effect of the last Branch::vulnix call

crawlvars == <<scenario, ncpu, checkq, INFLIGHT, inst_ch, inst_rx, out_ch, e_pc,
          e_result, seen, drvs, inputs, constituents, w_pc, w_attr, o_pc,
          o_result, outfile, m_pc, result, queried, dispatched, completed,
          failed, resolved, sent, buf, disk_ok, io_failed, w_result>>

scanvars == <<specs, b_pc, b_specs, b_result, s_idx, s_log, sbb, s_result,
              files, v_last>>

VARIABLES
    scan_by_branch, \* ticket_list: the ScanByBranch map it is called with
    t_todo,         \* ticket_list: branches drain() has not yielded yet
    pkgmap,         \* ticket_list: Package -> Vec<(Advisory, Branch)>
    scores,         \* ticket_list: the ScoreMap collected so far
    tickets,        \* ticket_list: the Vec<Ticket> it returns
    t_body,         \* per ticket, the advisories in the order body() lists them
    t_pc            \* position in ticket_list and the rendering of its result

ticketvars == <<scan_by_branch, t_todo, pkgmap, scores, tickets, t_body, t_pc>>

VARIABLES
    gh_issues,    \* the issues the tracker holds
    gh_comments,  \* the comments posted to the tracker
    create_pc,    \* gh_create: position
    iss,          \* gh_create: its result
    related_pc,   \* gh_related: position
    related,      \* gh_related: its result
    k_pc,         \* create_issue_async: position
    k_result      \* create_issue: return value

trackervars == <<gh_issues, gh_comments, create_pc, iss, related_pc, related,
                 k_pc, k_result>>

vars == <<crawlvars, scanvars, ticketvars, trackervars>>

-----------------------------------------------------------------------------
\* The external tools `nix show-derivation` and `nix-instantiate`.

Min(S) == CHOOSE x \in S : \A y \in S : x <= y

RECURSIVE SortedSeq(_)
SortedSeq(S) == IF S = {} THEN <<>> ELSE <<Min(S)>> \o SortedSeq(S \ {Min(S)})

RECURSIVE Reverse(_)
Reverse(s) == IF s = <<>> THEN <<>> ELSE Append(Reverse(Tail(s)), Head(s))

Range(s) == {s[i] : i \in 1..Len(s)}

\* inputDrvs of derivation n (DrvInfo.input_drvs).
InputDrvs(n) ==
    CASE scenario = "wide" -> IF n = 0 THEN 1..WideDeps ELSE {}
      [] scenario = "widedup" ->
            IF n = 0 THEN 1..WideDeps
            ELSE IF n <= WideDeps THEN {0, n - 1, n + WideDeps}
            ELSE {}
      [] scenario = "bar" -> IF n = 0 THEN {1} ELSE {}
      [] scenario = "badinput" -> IF n = 0 THEN {1} ELSE {}
      [] scenario = "twice" -> IF n = 0 THEN {1} ELSE {}
      [] scenario = "mixed" ->
            IF n = 0 THEN {1} ELSE IF n = 2 THEN {1, 3} ELSE {}
      [] OTHER -> {}

\* env.constituents of derivation n, split at whitespace.
Constituents(n) ==
    CASE scenario = "foo" -> IF n = 0 THEN <<"foo">> ELSE <<>>
      [] scenario = "badattr" -> IF n = 0 THEN <<"foo">> ELSE <<>>
      [] scenario = "bar" -> IF n = 0 THEN <<"bar">> ELSE <<>>
      [] scenario = "twice" -> IF n = 0 THEN <<"foo", "foo">> ELSE <<>>
      [] scenario = "many" ->
            IF n = 0 THEN [i \in 1..(I16Max + ExtraTargets) |-> "foo"]
            ELSE <<>>
      [] scenario = "mixed" ->
            IF n = 0 THEN <<"bar", "foo">>
            ELSE IF n = 2 THEN <<"baz">> ELSE <<>>
      [] OTHER -> <<>>

\* nix-instantiate -A attr: the derivation, or NoDrv when it fails.
Instantiate(attr) ==
    CASE scenario = "foo" /\ attr = "foo" -> 1
      [] scenario = "many" /\ attr = "foo" -> 1
      [] scenario = "badattr" /\ attr = "foo" -> 1
      [] scenario = "twice" /\ attr = "foo" -> 1
      [] scenario = "mixed" /\ attr = "foo" -> 2
      [] scenario = "mixed" /\ attr = "baz" -> 1
      [] OTHER -> NoDrv

RECURSIVE FlatInputs(_)
FlatInputs(batch) ==
    IF batch = <<>> THEN <<>>
    ELSE SortedSeq(InputDrvs(Head(batch))) \o FlatInputs(Tail(batch))

RECURSIVE FlatConstituents(_)
FlatConstituents(batch) ==
    IF batch = <<>> THEN <<>>
    ELSE Constituents(Head(batch)) \o FlatConstituents(Tail(batch))

\* show_derivation on a non-empty batch that succeeds: the map `info` is
\* iterated in an unspecified order; rev picks one of two orders.
show_derivation(batch, rev) ==
    IF rev
    THEN [inputs |-> Reverse(FlatInputs(batch)),
          constituents |-> Reverse(FlatConstituents(batch))]
    ELSE [inputs |-> FlatInputs(batch),
          constituents |-> FlatConstituents(batch)]

-----------------------------------------------------------------------------
\* DrvPath: the store path of node n as a sequence of its parts, and
\* has_version, the match of R_VERSION = "^(.+?)-([0-9]).*$".

Digits == {"0", "1", "2", "3", "4", "5", "6", "7", "8", "9"}

Path(n) ==
    CASE scenario = "badroot" /\ n = 0 ->
             <<"/tmp/", ToString(n), "-", "pkg", ".drv">>
      [] scenario = "badattr" /\ n = 1 ->
             <<"/tmp/", ToString(n), "-", "pkg", ".drv">>
      [] scenario = "badinput" /\ n = 1 ->
             <<"/nix/store/", ToString(n), "-", "pkg", ".txt">>
      [] scenario = "singlev" /\ n = 0 ->
             <<"/nix/store/", ToString(n), "-", "pkg", "-", "2", ".", "1",
               ".drv">>
      [] n % 3 = 0 -> <<"/nix/store/", ToString(n), "-", "pkg", ".drv">>
      [] n % 3 = 1 -> <<"/nix/store/", ToString(n), "-", "pkg", "-", "1", ".",
                        "0", ".drv">>
      [] OTHER     -> <<"/nix/store/", ToString(n), "-", "7", "zip", ".drv">>

\* nix.rs:100-112  DrvPath::new: both assert! pass
DrvPath_new_ok(p) == Head(p) = "/nix/store/" /\ p[Len(p)] = ".drv"

has_version(p) ==
    \E i \in 2..(Len(p) - 1) : p[i] = "-" /\ p[i + 1] \in Digits

-----------------------------------------------------------------------------
\* Seen::take_max

\* Mutant of take_more: the loop test is off by one.
take_more_off_by_one(res, n) == Len(res) <= n

\* nix.rs:138  while res.len() < n
take_more(res, n) == Len(res) < n

\* Mutant of seen_contains: popped elements are never recognised as seen.
seen_contains_never(s, elem) == FALSE

\* nix.rs:140  if self.contains(&elem) { continue; }
seen_contains(s, elem) == elem \in s

\* A Seen::add that would forget the elements added before.
seen_add_forgetful(s, elem) == {elem}

\* nix.rs:130-134  Seen::add
seen_add(s, elem) == IF elem \notin s THEN s \cup {elem} ELSE s

\* nix.rs:139-144  one iteration: pop an element, skip it or add and push it
take_step(st) ==
    IF seen_contains(st.seen, Head(st.queue))
    THEN [st EXCEPT !.queue = Tail(st.queue)]
    ELSE [seen |-> seen_add(st.seen, Head(st.queue)),
          queue |-> Tail(st.queue),
          res |-> Append(st.res, Head(st.queue))]

\* nix.rs:138-148  the loop, until res is full or the queue is empty
RECURSIVE take_loop(_, _)
take_loop(st, n) ==
    CHOOSE r \in {IF take_more(x.res, n) /\ x.queue # <<>>
                  THEN take_loop(take_step(x), n)
                  ELSE x : x \in {st}} : TRUE

\* nix.rs:136-150  Seen::take_max
take_max(s, q, n) == take_loop([seen |-> s, queue |-> q, res |-> <<>>], n)

-----------------------------------------------------------------------------
\* AtomicI16

\* A fetch_add that would not count.
fetch_add_none(x) == x

Wrap16(x) == ((x + 32768) % 65536) - 32768

\* nix.rs:178  INFLIGHT.fetch_add(1, SeqCst)
fetch_add(x) == Wrap16(x + 1)

\* nix.rs:205  INFLIGHT.fetch_sub(1, SeqCst)
fetch_sub(x) == Wrap16(x - 1)

\* nix.rs:184  if inflight <= 0 { break; }
loop_exit(inflight) == inflight <= 0

-----------------------------------------------------------------------------
Workers == 1..(ncpu - 1)

\* Some Receiver of the instantiate channel is still alive.
InstHasReceiver == inst_rx \/ \E w \in Workers : w_pc[w] # "done"

\* Every Sender of a channel lives in expand_runner's frame.
SendersDropped == e_pc = "done"

InitCrawl(S) ==
    /\ scenario \in S
    /\ ncpu \in 1..MaxCpus
    /\ checkq = <<>>
    /\ INFLIGHT = 0
    /\ inst_ch = <<>>
    /\ inst_rx = FALSE
    /\ out_ch = <<>>
    /\ e_pc = "unborn"
    /\ e_result = "none"
    /\ seen = {}
    /\ drvs = <<>>
    /\ inputs = <<>>
    /\ constituents = <<>>
    /\ w_pc = [w \in Workers |-> "unborn"]
    /\ w_attr = [w \in Workers |-> ""]
    /\ o_pc = "unborn"
    /\ o_result = "none"
    /\ outfile = <<>>
    /\ m_pc = "start"
    /\ result = "none"
    /\ queried = <<>>
    /\ dispatched = 0
    /\ completed = 0
    /\ failed = 0
    /\ resolved = {}
    /\ sent = <<>>
    /\ buf = <<>>
    /\ disk_ok = TRUE
    /\ io_failed = FALSE
    /\ w_result = [w \in Workers |-> "none"]

\* No Branches value exists.
ScanIdle ==
    /\ specs = <<>>
    /\ b_pc = "idle"
    /\ b_specs = <<>>
    /\ b_result = "none"
    /\ s_idx = 0
    /\ s_log = <<>>
    /\ sbb = <<>>
    /\ s_result = "none"
    /\ files = {}
    /\ v_last = [called |-> FALSE, branch |-> "", captured |-> FALSE,
                 status |-> [kind |-> "Exited", code |-> 0],
                 parse_ok |-> FALSE, write_ok |-> FALSE, written |-> FALSE,
                 ret |-> "none"]

\* ticket_list has not been called.
TicketIdle ==
    /\ scan_by_branch = <<>>
    /\ t_todo = <<>>
    /\ pkgmap = <<>>
    /\ scores = <<>>
    /\ tickets = <<>>
    /\ t_body = <<>>
    /\ t_pc = "idle"

\* create_issue has not been called.
TrackerIdle ==
    /\ gh_issues = {}
    /\ gh_comments = <<>>
    /\ create_pc = "idle"
    /\ iss = [ok |-> FALSE, number |-> 0]
    /\ related_pc = "idle"
    /\ related = [ok |-> FALSE, list |-> <<>>]
    /\ k_pc = "idle"
    /\ k_result = "none"

Init == InitCrawl(Scenarios) /\ ScanIdle /\ TicketIdle /\ TrackerIdle

-----------------------------------------------------------------------------
\* all_derivations (the orchestrator)

\* nix.rs:225  checkq.push(nix_instantiate(repo, None)?)
MainStart ==
    /\ m_pc = "start"
    /\ \E ok \in BOOLEAN :
          IF ok
          THEN IF DrvPath_new_ok(Path(0))
               THEN /\ checkq' = Append(checkq, 0)
                    /\ m_pc' = "scope"
                    /\ result' = result
               ELSE /\ checkq' = checkq
                    /\ m_pc' = "returned"
                    /\ result' = "Panic"
          ELSE /\ checkq' = checkq
               /\ m_pc' = "returned"
               /\ result' = "Err"
    /\ UNCHANGED <<scenario, ncpu, INFLIGHT, inst_ch, inst_rx, out_ch, e_pc,
                   e_result, seen, drvs, inputs, constituents, w_pc, w_attr,
                   o_pc, o_result, outfile, queried, dispatched, completed,
                   resolved, failed,
                   sent, buf, disk_ok, io_failed, w_result, scanvars, ticketvars, trackervars>>

\* nix.rs:227-235  the channels, check_hdl and inst_hdl: (1..num_cpus::get())
MainSpawn ==
    /\ m_pc = "scope"
    /\ inst_rx' = TRUE
    /\ e_pc' = "loop"
    /\ w_pc' = [w \in Workers |-> "recv"]
    /\ m_pc' = "drop_rx"
    /\ UNCHANGED <<scenario, ncpu, checkq, INFLIGHT, inst_ch, out_ch,
                   e_result, seen, drvs, inputs, constituents, w_attr, o_pc,
                   o_result, outfile, result, queried, dispatched, completed,
                   resolved, failed,
                   sent, buf, disk_ok, io_failed, w_result, scanvars, ticketvars, trackervars>>

\* nix.rs:236-237  drop(inst_rx); out_hdl.  A channel whose last Receiver is
\* dropped is disconnected and its messages are discarded.
MainDropRx ==
    /\ m_pc = "drop_rx"
    /\ inst_rx' = FALSE
    /\ inst_ch' = IF \E w \in Workers : w_pc[w] # "done" THEN inst_ch ELSE <<>>
    /\ o_pc' = "recv"
    /\ m_pc' = "join_check"
    /\ UNCHANGED <<scenario, ncpu, checkq, INFLIGHT, out_ch, e_pc, e_result,
                   seen, drvs, inputs, constituents, w_pc, w_attr, o_result,
                   outfile, result, queried, dispatched, completed, resolved, failed,
                   sent, buf, disk_ok, io_failed, w_result, scanvars, ticketvars, trackervars>>

\* Mutant of MainJoinCheck: the result of expand_runner is dropped (no `?`).
MainJoinCheckIgnored ==
    /\ m_pc = "join_check"
    /\ e_pc = "done"
    /\ m_pc' = "join_inst"
    /\ UNCHANGED <<scenario, ncpu, checkq, INFLIGHT, inst_ch, inst_rx, out_ch,
                   e_pc, e_result, seen, drvs, inputs, constituents, w_pc,
                   w_attr, o_pc, o_result, outfile, result, queried,
                   dispatched, completed, resolved, failed,
                   sent, buf, disk_ok, io_failed, w_result, scanvars, ticketvars, trackervars>>

\* nix.rs:238  check_hdl.join().expect("child thread panic")?
MainJoinCheck ==
    /\ m_pc = "join_check"
    /\ e_pc = "done"
    /\ IF e_result = "Ok"
       THEN m_pc' = "join_inst" /\ result' = result
       ELSE IF e_result = "Panic"
       THEN m_pc' = "scope_exit" /\ result' = "Panic"
       ELSE m_pc' = "scope_exit" /\ result' = "Err"
    /\ UNCHANGED <<scenario, ncpu, checkq, INFLIGHT, inst_ch, inst_rx, out_ch,
                   e_pc, e_result, seen, drvs, inputs, constituents, w_pc,
                   w_attr, o_pc, o_result, outfile, queried, dispatched,
                   completed, resolved, failed,
                   sent, buf, disk_ok, io_failed, w_result, scanvars, ticketvars, trackervars>>

\* nix.rs:239-241  for hdl in inst_hdl { hdl.join().expect(..) }: the handles
\* are joined in order; expect panics on the first worker that panicked.
MainJoinInst ==
    /\ m_pc = "join_inst"
    /\ LET bad == {w \in Workers :
                     /\ w_pc[w] = "done" /\ w_result[w] = "Panic"
                     /\ \A v \in Workers : v < w => w_pc[v] = "done"}
       IN /\ bad # {} \/ \A w \in Workers : w_pc[w] = "done"
          /\ IF bad # {}
             THEN m_pc' = "scope_exit" /\ result' = "Panic"
             ELSE m_pc' = "join_out" /\ result' = result
    /\ UNCHANGED <<scenario, ncpu, checkq, INFLIGHT, inst_ch, inst_rx, out_ch,
                   e_pc, e_result, seen, drvs, inputs, constituents, w_pc,
                   w_attr, o_pc, o_result, outfile, queried,
                   dispatched, completed, resolved, failed,
                   sent, buf, disk_ok, io_failed, w_result, scanvars, ticketvars, trackervars>>

\* nix.rs:242  out_hdl.join().expect("child thread panic")
MainJoinOut ==
    /\ m_pc = "join_out"
    /\ o_pc = "done"
    /\ result' = o_result
    /\ m_pc' = "scope_exit"
    /\ UNCHANGED <<scenario, ncpu, checkq, INFLIGHT, inst_ch, inst_rx, out_ch,
                   e_pc, e_result, seen, drvs, inputs, constituents, w_pc,
                   w_attr, o_pc, o_result, outfile, queried, dispatched,
                   completed, resolved, failed,
                   sent, buf, disk_ok, io_failed, w_result, scanvars, ticketvars, trackervars>>

\* A scope that would return without joining the threads it spawned.
MainScopeExitNoWait ==
    /\ m_pc = "scope_exit"
    /\ m_pc' = "returned"
    /\ UNCHANGED <<scenario, ncpu, checkq, INFLIGHT, inst_ch, inst_rx, out_ch,
                   e_pc, e_result, seen, drvs, inputs, constituents, w_pc,
                   w_attr, o_pc, o_result, outfile, result, queried,
                   dispatched, completed, resolved, failed,
                   sent, buf, disk_ok, io_failed, w_result, scanvars, ticketvars, trackervars>>

\* nix.rs:243-246  crossbeam::scope joins every thread it spawned before it
\* returns; then outfile.keep() and Ok(path), or the error.  A panic of the
\* closure is resumed, and a panic of a thread that was not joined makes the
\* scope return Err, on which unwrap() panics.
MainScopeExit ==
    /\ m_pc = "scope_exit"
    /\ e_pc = "done"
    /\ \A w \in Workers : w_pc[w] = "done"
    /\ o_pc = "done"
    /\ m_pc' = "returned"
    /\ result' = IF e_result = "Panic" \/ \E w \in Workers : w_result[w] = "Panic"
                 THEN "Panic" ELSE result
    /\ UNCHANGED <<scenario, ncpu, checkq, INFLIGHT, inst_ch, inst_rx, out_ch,
                   e_pc, e_result, seen, drvs, inputs, constituents, w_pc,
                   w_attr, o_pc, o_result, outfile, queried,
                   dispatched, completed, resolved, failed,
                   sent, buf, disk_ok, io_failed, w_result, scanvars, ticketvars, trackervars>>

Main ==
    \/ MainStart
    \/ MainSpawn
    \/ MainDropRx
    \/ MainJoinCheck
    \/ MainJoinInst
    \/ MainJoinOut
    \/ MainScopeExit

-----------------------------------------------------------------------------
\* expand_runner

\* nix.rs:169-170  let len = queue.len(); if len > 0
ExpandLoop ==
    /\ e_pc = "loop"
    /\ e_pc' = IF Len(checkq) > 0 THEN "take" ELSE "load"
    /\ UNCHANGED <<scenario, ncpu, checkq, INFLIGHT, inst_ch, inst_rx, out_ch,
                   e_result, seen, drvs, inputs, constituents, w_pc, w_attr,
                   o_pc, o_result, outfile, m_pc, result, queried, dispatched,
                   completed, resolved, failed,
                   sent, buf, disk_ok, io_failed, w_result, scanvars, ticketvars, trackervars>>

\* nix.rs:171  let drvs = seen.take_max(queue, 30)
ExpandTake ==
    /\ e_pc = "take"
    /\ seen' = take_max(seen, checkq, BatchCap).seen
    /\ checkq' = take_max(seen, checkq, BatchCap).queue
    /\ drvs' = take_max(seen, checkq, BatchCap).res
    /\ e_pc' = "query"
    /\ UNCHANGED <<scenario, ncpu, INFLIGHT, inst_ch, inst_rx, out_ch,
                   e_result, inputs, constituents, w_pc, w_attr, o_pc,
                   o_result, outfile, m_pc, result, queried, dispatched,
                   completed, resolved, failed,
                   sent, buf, disk_ok, io_failed, w_result, scanvars, ticketvars, trackervars>>

\* A show_derivation without the shortcut for the empty list.
is_empty_never(batch) == FALSE

\* nix.rs:46-48  if drvs.is_empty() { return Ok((vec![], vec![])) }
is_empty(batch) == batch = <<>>

\* An expand_runner that would go on with a batch whose query failed.
ExpandQueryForwardsFailure ==
    /\ e_pc = "query"
    /\ IF is_empty(drvs)
       THEN /\ inputs' = <<>>
            /\ constituents' = <<>>
            /\ e_pc' = "send"
            /\ UNCHANGED <<e_result, queried>>
       ELSE /\ queried' = Append(queried, drvs)
            /\ \E ok \in BOOLEAN, rev \in BOOLEAN :
                  IF ok
                  THEN /\ inputs' = show_derivation(drvs, rev).inputs
                       /\ constituents' = show_derivation(drvs, rev).constituents
                       /\ e_pc' = "send"
                       /\ e_result' = e_result
                  ELSE /\ inputs' = <<>>
                       /\ constituents' = <<>>
                       /\ e_pc' = "send"
                       /\ e_result' = "ErrQuery"
    /\ UNCHANGED <<scenario, ncpu, checkq, INFLIGHT, inst_ch, inst_rx, out_ch,
                   seen, drvs, w_pc, w_attr, o_pc, o_result, outfile, m_pc,
                   result, dispatched, completed, resolved, failed,
                   sent, buf, disk_ok, io_failed, w_result, scanvars, ticketvars, trackervars>>

\* nix.rs:172  show_derivation(&drvs)?  (nix.rs:45-69): no process is run for
\* an empty batch; otherwise the call succeeds or fails.  DrvPath::new on an
\* input (nix.rs:55) panics on a malformed path and the thread ends.
ExpandQuery ==
    /\ e_pc = "query"
    /\ IF is_empty(drvs)
       THEN /\ inputs' = <<>>
            /\ constituents' = <<>>
            /\ e_pc' = "send"
            /\ UNCHANGED <<e_result, queried>>
       ELSE /\ queried' = Append(queried, drvs)
            /\ \E ok \in BOOLEAN, rev \in BOOLEAN :
                  IF ok /\ \A n \in Range(FlatInputs(drvs)) :
                                DrvPath_new_ok(Path(n))
                  THEN /\ inputs' = show_derivation(drvs, rev).inputs
                       /\ constituents' = show_derivation(drvs, rev).constituents
                       /\ e_pc' = "send"
                       /\ e_result' = e_result
                  ELSE IF ok
                  THEN /\ inputs' = inputs
                       /\ constituents' = constituents
                       /\ e_pc' = "done"
                       /\ e_result' = "Panic"
                  ELSE /\ inputs' = inputs
                       /\ constituents' = constituents
                       /\ e_pc' = "done"
                       /\ e_result' = "ErrQuery"
    /\ UNCHANGED <<scenario, ncpu, checkq, INFLIGHT, inst_ch, inst_rx, out_ch,
                   seen, drvs, w_pc, w_attr, o_pc, o_result, outfile, m_pc,
                   result, dispatched, completed, resolved, failed,
                   sent, buf, disk_ok, io_failed, w_result, scanvars, ticketvars, trackervars>>

\* A channel that would hand out the newest message first.
chan_send_front(ch, msg) == <<msg>> \o ch

\* nix.rs:227-228  unbounded(): Sender::send appends, the Receiver takes from
\* the front
chan_send(ch, msg) == Append(ch, msg)

\* nix.rs:173  scanner.send(drvs)?  fails when the Receiver is gone
ExpandSend ==
    /\ e_pc = "send"
    /\ IF o_pc = "done"
       THEN /\ e_pc' = "done"
            /\ e_result' = "ErrSend"
            /\ out_ch' = out_ch
            /\ sent' = sent
       ELSE /\ e_pc' = "push"
            /\ e_result' = e_result
            /\ out_ch' = chan_send(out_ch, drvs)
            /\ sent' = Append(sent, drvs)
    /\ UNCHANGED <<scenario, ncpu, checkq, INFLIGHT, inst_ch, inst_rx, seen,
                   drvs, inputs, constituents, w_pc, w_attr, o_pc, o_result,
                   outfile, m_pc, result, queried, dispatched, completed,
                   resolved, failed,
                   buf, disk_ok, io_failed, w_result, scanvars, ticketvars, trackervars>>

\* An expand_runner that would not push the inputs of a batch.
ExpandPushNothing ==
    /\ e_pc = "push"
    /\ inputs' = <<>>
    /\ e_pc' = IF constituents = <<>> THEN "loop" ELSE "inc"
    /\ UNCHANGED <<scenario, ncpu, checkq, INFLIGHT, inst_ch, inst_rx, out_ch,
                   e_result, seen, drvs, constituents, w_pc, w_attr, o_pc,
                   o_result, outfile, m_pc, result, queried, dispatched,
                   completed, resolved, failed,
                   sent, buf, disk_ok, io_failed, w_result, scanvars, ticketvars, trackervars>>

\* nix.rs:174-176  for i in inputs { queue.push(i) }
ExpandPush ==
    /\ e_pc = "push"
    /\ checkq' = checkq \o inputs
    /\ inputs' = <<>>
    /\ e_pc' = IF constituents = <<>> THEN "loop" ELSE "inc"
    /\ UNCHANGED <<scenario, ncpu, INFLIGHT, inst_ch, inst_rx, out_ch,
                   e_result, seen, drvs, constituents, w_pc, w_attr, o_pc,
                   o_result, outfile, m_pc, result, queried, dispatched,
                   completed, resolved, failed,
                   sent, buf, disk_ok, io_failed, w_result, scanvars, ticketvars, trackervars>>

\* nix.rs:178  INFLIGHT.fetch_add(1, Ordering::SeqCst)
ExpandInc ==
    /\ e_pc = "inc"
    /\ INFLIGHT' = fetch_add(INFLIGHT)
    /\ dispatched' = dispatched + 1
    /\ e_pc' = "sendc"
    /\ UNCHANGED <<scenario, ncpu, checkq, inst_ch, inst_rx, out_ch, e_result,
                   seen, drvs, inputs, constituents, w_pc, w_attr, o_pc,
                   o_result, outfile, m_pc, result, queried, completed,
                   resolved, failed,
                   sent, buf, disk_ok, io_failed, w_result, scanvars, ticketvars, trackervars>>

\* nix.rs:179  instantiate.send(c)?  fails when every Receiver is gone
ExpandSendAttr ==
    /\ e_pc = "sendc"
    /\ IF InstHasReceiver
       THEN /\ inst_ch' = Append(inst_ch, Head(constituents))
            /\ constituents' = Tail(constituents)
            /\ e_pc' = IF Tail(constituents) = <<>> THEN "loop" ELSE "inc"
            /\ e_result' = e_result
       ELSE /\ inst_ch' = inst_ch
            /\ constituents' = constituents
            /\ e_pc' = "done"
            /\ e_result' = "ErrSend"
    /\ UNCHANGED <<scenario, ncpu, checkq, INFLIGHT, inst_rx, out_ch, seen,
                   drvs, inputs, w_pc, w_attr, o_pc, o_result, outfile, m_pc,
                   result, queried, dispatched, completed, resolved, failed,
                   sent, buf, disk_ok, io_failed, w_result, scanvars, ticketvars, trackervars>>

\* nix.rs:183-186  let inflight = INFLIGHT.load(SeqCst); if inflight <= 0 { break }
\* nix.rs:195-196  Ok(())
ExpandLoad ==
    /\ e_pc = "load"
    /\ IF loop_exit(INFLIGHT)
       THEN e_pc' = "done" /\ e_result' = "Ok"
       ELSE e_pc' = "sleep" /\ e_result' = e_result
    /\ UNCHANGED <<scenario, ncpu, checkq, INFLIGHT, inst_ch, inst_rx, out_ch,
                   seen, drvs, inputs, constituents, w_pc, w_attr, o_pc,
                   o_result, outfile, m_pc, result, queried, dispatched,
                   completed, resolved, failed,
                   sent, buf, disk_ok, io_failed, w_result, scanvars, ticketvars, trackervars>>

\* nix.rs:191  thread::sleep(Duration::new(2, 0))
ExpandSleep ==
    /\ e_pc = "sleep"
    /\ e_pc' = "loop"
    /\ UNCHANGED <<scenario, ncpu, checkq, INFLIGHT, inst_ch, inst_rx, out_ch,
                   e_result, seen, drvs, inputs, constituents, w_pc, w_attr,
                   o_pc, o_result, outfile, m_pc, result, queried, dispatched,
                   completed, resolved, failed,
                   sent, buf, disk_ok, io_failed, w_result, scanvars, ticketvars, trackervars>>

Expand ==
    \/ ExpandLoop
    \/ ExpandTake
    \/ ExpandQuery
    \/ ExpandSend
    \/ ExpandPush
    \/ ExpandInc
    \/ ExpandSendAttr
    \/ ExpandLoad
    \/ ExpandSleep

-----------------------------------------------------------------------------
\* instantiate_runner

\* nix.rs:200  for a in attrs: the next message, or the end of the loop once
\* the channel is empty and every Sender is dropped
WorkerRecv(w) ==
    /\ w \in Workers
    /\ w_pc[w] = "recv"
    /\ inst_ch # <<>> \/ SendersDropped
    /\ IF inst_ch # <<>>
       THEN /\ w_attr' = [w_attr EXCEPT ![w] = Head(inst_ch)]
            /\ inst_ch' = Tail(inst_ch)
            /\ w_pc' = [w_pc EXCEPT ![w] = "call"]
       ELSE /\ w_attr' = w_attr
            /\ inst_ch' = inst_ch
            /\ w_pc' = [w_pc EXCEPT ![w] = "done"]
    /\ UNCHANGED <<scenario, ncpu, checkq, INFLIGHT, inst_rx, out_ch, e_pc,
                   e_result, seen, drvs, inputs, constituents, o_pc, o_result,
                   outfile, m_pc, result, queried, dispatched, completed,
                   resolved, failed,
                   sent, buf, disk_ok, io_failed, w_result, scanvars, ticketvars, trackervars>>

\* A worker that would drop the derivation it resolved.
push_result_nothing(q, drv) == q

\* nix.rs:201-204  Ok(drv) => out.push(drv), Err(e) => warn!(..)
push_result(q, drv) == IF drv # NoDrv THEN Append(q, drv) ELSE q

\* Mutant of after_match: the Err arm continues with the next attribute.
after_match_skip(drv) == IF drv = NoDrv THEN "recv" ELSE "dec"

\* nix.rs:201-205  both arms of the match fall through to fetch_sub; a panic
\* of DrvPath::new inside nix_instantiate (nix.rs:90) ends the thread instead
after_match(drv) == "dec"

WorkerCall(w) ==
    /\ w \in Workers
    /\ w_pc[w] = "call"
    /\ LET drv == Instantiate(w_attr[w])
       IN IF drv # NoDrv /\ ~DrvPath_new_ok(Path(drv))
          THEN /\ w_pc' = [w_pc EXCEPT ![w] = "done"]
               /\ w_result' = [w_result EXCEPT ![w] = "Panic"]
               /\ UNCHANGED <<checkq, resolved, failed, completed>>
          ELSE /\ checkq' = push_result(checkq, drv)
               /\ resolved' = IF drv # NoDrv THEN resolved \cup {drv}
                                             ELSE resolved
               /\ failed' = IF drv # NoDrv THEN failed ELSE failed + 1
               /\ w_pc' = [w_pc EXCEPT ![w] = after_match(drv)]
               /\ completed' = completed + 1
               /\ w_result' = w_result
    /\ UNCHANGED <<scenario, ncpu, INFLIGHT, inst_ch, inst_rx, out_ch, e_pc,
                   e_result, seen, drvs, inputs, constituents, w_attr, o_pc,
                   o_result, outfile, m_pc, result, queried, dispatched,
                   sent, buf, disk_ok, io_failed, scanvars, ticketvars, trackervars>>

\* nix.rs:205  INFLIGHT.fetch_sub(1, Ordering::SeqCst)
WorkerDec(w) ==
    /\ w \in Workers
    /\ w_pc[w] = "dec"
    /\ INFLIGHT' = fetch_sub(INFLIGHT)
    /\ w_pc' = [w_pc EXCEPT ![w] = "recv"]
    /\ UNCHANGED <<scenario, ncpu, checkq, inst_ch, inst_rx, out_ch, e_pc,
                   e_result, seen, drvs, inputs, constituents, w_attr, o_pc,
                   o_result, outfile, m_pc, result, queried, dispatched,
                   completed, resolved, failed,
                   sent, buf, disk_ok, io_failed, w_result, scanvars, ticketvars, trackervars>>

Worker(w) == WorkerRecv(w) \/ WorkerCall(w) \/ WorkerDec(w)

-----------------------------------------------------------------------------
\* output_runner

\* A filter that would keep the paths without a version.
write_lines_inverted(batch) == SelectSeq(batch, LAMBDA d : ~has_version(Path(d)))

\* Mutant of write_lines: the filter is missing.
write_lines_unfiltered(batch) == batch

\* nix.rs:212-214  flat_map, filter(has_version), writeln!
write_lines(batch) == SelectSeq(batch, LAMBDA d : has_version(Path(d)))

\* nix.rs:210,214  writeln! into BufWriter::new(out): a line goes into the
\* buffer; when the buffer is full it is written to the file first, and a
\* failure of that write is the io::Error of writeln!.  After an error nothing
\* more is written (collect stops at the first Err).
write_line(st, line) ==
    IF st.err THEN st
    ELSE IF Len(st.buf) < BufLines
         THEN [st EXCEPT !.buf = Append(st.buf, line)]
    ELSE IF st.disk
         THEN [st EXCEPT !.file = st.file \o st.buf, !.buf = <<line>>]
    ELSE [st EXCEPT !.err = TRUE]

RECURSIVE write_all(_, _)
write_all(st, lines) ==
    CHOOSE r \in {IF lines = <<>> THEN x
                  ELSE write_all(write_line(x, Head(lines)), Tail(lines))
                  : x \in {st}} : TRUE

\* nix.rs:210,216-217  f goes out of scope: BufWriter's Drop writes what is
\* buffered and ignores the io::Error of that write.
drop_flush(b, file, disk) == IF disk THEN file \o b ELSE file

OutputRecv ==
    /\ o_pc = "recv"
    /\ out_ch # <<>>
    /\ LET st == write_all([buf |-> buf, file |-> outfile, err |-> FALSE,
                            disk |-> disk_ok], write_lines(Head(out_ch)))
       IN /\ buf' = st.buf
          /\ outfile' = st.file
          /\ io_failed' = (io_failed \/ st.err)
          /\ IF st.err
             THEN /\ o_pc' = "done"
                  /\ o_result' = "Err"
                  /\ out_ch' = <<>>
             ELSE /\ o_pc' = o_pc
                  /\ o_result' = o_result
                  /\ out_ch' = Tail(out_ch)
    /\ UNCHANGED <<scenario, ncpu, checkq, INFLIGHT, inst_ch, inst_rx, e_pc,
                   e_result, seen, drvs, inputs, constituents, w_pc, w_attr,
                   m_pc, result, queried, dispatched,
                   completed, resolved, failed,
                   sent, disk_ok, w_result, scanvars, ticketvars, trackervars>>

\* nix.rs:211,216  the iterator ends once the channel is empty and every
\* Sender is dropped: Ok(())
OutputEnd ==
    /\ o_pc = "recv"
    /\ out_ch = <<>>
    /\ SendersDropped
    /\ o_pc' = "done"
    /\ o_result' = "Ok"
    /\ outfile' = drop_flush(buf, outfile, disk_ok)
    /\ io_failed' = (io_failed \/ (buf # <<>> /\ ~disk_ok))
    /\ buf' = <<>>
    /\ UNCHANGED <<scenario, ncpu, checkq, INFLIGHT, inst_ch, inst_rx, out_ch,
                   e_pc, e_result, seen, drvs, inputs, constituents, w_pc,
                   w_attr, m_pc, result, queried, dispatched,
                   completed, resolved, failed,
                   sent, disk_ok, w_result, scanvars, ticketvars, trackervars>>

\* The file system starts to reject writes to the temp file (disk full, I/O
\* error) while output_runner is running.
DiskFails ==
    /\ o_pc = "recv"
    /\ disk_ok
    /\ disk_ok' = FALSE
    /\ UNCHANGED <<scenario, ncpu, checkq, INFLIGHT, inst_ch, inst_rx, out_ch,
                   e_pc, e_result, seen, drvs, inputs, constituents, w_pc,
                   w_attr, o_pc, o_result, outfile, m_pc, result, queried,
                   dispatched, completed, resolved, failed,
                   sent, buf, io_failed, w_result, scanvars, ticketvars, trackervars>>

Output == OutputRecv \/ OutputEnd

-----------------------------------------------------------------------------
Next ==
    \/ Main
    \/ Expand
    \/ \E w \in 1..(MaxCpus - 1) : Worker(w)
    \/ Output

Spec == Init /\ [][Next]_vars

\* Every thread that can take a step eventually takes one.
FairSpec ==
    /\ Spec
    /\ WF_vars(Main)
    /\ WF_vars(Expand)
    /\ \A w \in 1..(MaxCpus - 1) : WF_vars(Worker(w))
    /\ WF_vars(Output)

\* The crawl on a file system that can start to reject writes.
NextIO == Next \/ DiskFails

SpecIO == Init /\ [][NextIO]_vars

\* The crawl on graphs that include malformed store paths.
InitMalformed ==
    /\ InitCrawl({"foo", "mixed"} \cup MalformedScenarios)
    /\ ScanIdle
    /\ TicketIdle
    /\ TrackerIdle

FairSpecMalformed ==
    /\ InitMalformed /\ [][Next]_vars
    /\ WF_vars(Main)
    /\ WF_vars(Expand)
    /\ \A w \in 1..(MaxCpus - 1) : WF_vars(Worker(w))
    /\ WF_vars(Output)

\* The crawl of a root with more than I16Max constituents (scenario "many"),
\* from the states in which expand_runner has queried the root and dispatched
\* d of its constituents (nix.rs:177-180), every resolution worker has received
\* one of them and is waiting for nix-instantiate to return (nix.rs:201), and
\* the orchestrator is at drop(inst_rx) or waits for expand_runner.
InitWidth ==
    /\ scenario = "many"
    /\ ncpu \in 2..MaxCpus
    /\ \E d \in (I16Max - 5)..(I16Max - 1) :
          /\ INFLIGHT = d
          /\ dispatched = d
          /\ inst_ch = [i \in 1..(d - Cardinality(Workers)) |-> "foo"]
          /\ constituents = [i \in 1..(I16Max + ExtraTargets - d) |-> "foo"]
    /\ checkq = <<>>
    /\ e_pc = "inc"
    /\ e_result = "none"
    /\ seen = {0}
    /\ drvs = <<0>>
    /\ inputs = <<>>
    /\ w_pc = [w \in Workers |-> "call"]
    /\ w_attr = [w \in Workers |-> "foo"]
    /\ w_result = [w \in Workers |-> "none"]
    /\ \/ m_pc = "drop_rx" /\ inst_rx = TRUE /\ o_pc = "unborn"
             /\ out_ch = <<(<<0>>)>>
       \/ m_pc = "join_check" /\ inst_rx = FALSE /\ o_pc = "recv"
             /\ out_ch \in {<<(<<0>>)>>, <<>>}
    /\ o_result = "none"
    /\ outfile = <<>>
    /\ buf = <<>>
    /\ disk_ok = TRUE
    /\ io_failed = FALSE
    /\ result = "none"
    /\ queried = <<(<<0>>)>>
    /\ sent = <<(<<0>>)>>
    /\ completed = 0
    /\ failed = 0
    /\ resolved = {}
    /\ ScanIdle
    /\ TicketIdle
    /\ TrackerIdle

\* The steps that can follow while every nix-instantiate call is still
\* running.
NextWidth ==
    \/ MainDropRx
    \/ MainJoinCheck
    \/ ExpandInc
    \/ ExpandSendAttr
    \/ ExpandLoop
    \/ ExpandLoad
    \/ OutputRecv
    \/ OutputEnd

SpecWidth == InitWidth /\ [][NextWidth]_vars

-----------------------------------------------------------------------------
\* scan.rs: Branches::init, Branches::scan and Branch::vulnix

BranchNames == {"a", "b"}
BranchRevs == {"r1", "r2"}

\* scan.rs:40-45  struct Branch { name, rev }
BranchT == [name : BranchNames, rev : BranchRevs]

\* The slices of branch specs Branches::init is called with.
SpecLists == UNION {[1..n -> BranchT] : n \in 0..MaxBranches}

\* A check that would compare whole branches (name and rev).
has_later_duplicate_eq(sp, idx) ==
    \E j \in (idx + 1)..Len(sp) : sp[j] = sp[idx]

\* scan.rs:173  specs.iter().skip(idx + 1).any(|s| s.name == elem.name)
has_later_duplicate(sp, idx) ==
    \E j \in (idx + 1)..Len(sp) : sp[j].name = sp[idx].name

\* scan.rs:172-176  the loop over the specs: bail! at the first duplicate
RECURSIVE init_loop(_, _)
init_loop(sp, idx) ==
    IF idx > Len(sp) THEN "Ok"
    ELSE IF has_later_duplicate(sp, idx) THEN "Err"
    ELSE init_loop(sp, idx + 1)

\* scan.rs:166-179  Branches::init
Branches_init(sp) ==
    IF init_loop(sp, 1) = "Ok"
    THEN [ret |-> "Ok", specs |-> sp]
    ELSE [ret |-> "Err", specs |-> <<>>]

\* subprocess::ExitStatus of the vulnix process.
ExitStatuses ==
    {[kind |-> "Exited", code |-> c] : c \in 0..3}
        \cup {[kind |-> "Signaled", code |-> 0]}

\* scan.rs:104-107  Exited(e) if e <= 2 => (), _ => bail!
status_ok(st) == st.kind = "Exited" /\ st.code <= 2

\* scan.rs:86-116  Branch::vulnix: what it returns and whether it has written
\* vulnix.<name>.json, for a process that could be run or not (captured), its
\* exit status, stdout that parses as JSON or not (there is no stdout to
\* parse when the process could not be run), and a file system that accepts
\* the write or not.
vulnix(captured, st, parse_ok, write_ok) ==
    IF ~captured THEN [ret |-> "Err", written |-> FALSE]
    ELSE IF ~status_ok(st) THEN [ret |-> "Err", written |-> FALSE]
    ELSE IF ~write_ok THEN [ret |-> "Err", written |-> FALSE]
    ELSE [ret |-> IF parse_ok THEN "Ok" ELSE "Err", written |-> TRUE]

NoCall == [called |-> FALSE, branch |-> "", captured |-> FALSE,
           status |-> [kind |-> "Exited", code |-> 0], parse_ok |-> FALSE,
           write_ok |-> FALSE, written |-> FALSE, ret |-> "none"]

\* Branches::init is about to be called with some list of specs; no crawl is
\* running.
InitScan ==
    /\ InitCrawl({"single"})
    /\ ncpu = 1
    /\ specs \in SpecLists
    /\ b_pc = "init"
    /\ b_specs = <<>>
    /\ b_result = "none"
    /\ s_idx = 0
    /\ s_log = <<>>
    /\ sbb = <<>>
    /\ s_result = "none"
    /\ files = {}
    /\ v_last = NoCall
    /\ TicketIdle
    /\ TrackerIdle

\* scan.rs:166-179  Branches::init(specs)
BranchesInit ==
    /\ b_pc = "init"
    /\ b_result' = Branches_init(specs).ret
    /\ b_specs' = Branches_init(specs).specs
    /\ b_pc' = IF Branches_init(specs).ret = "Ok" THEN "loop" ELSE "done"
    /\ UNCHANGED <<crawlvars, ticketvars, trackervars, specs, s_idx, s_log, sbb, s_result, files,
                   v_last>>

\* scan.rs:222,228  for branch in self.iter() { .. }  Ok(sbb)
ScanLoop ==
    /\ b_pc = "loop"
    /\ IF s_idx >= Len(b_specs)
       THEN /\ b_pc' = "done"
            /\ s_result' = "Ok"
            /\ s_idx' = s_idx
       ELSE /\ b_pc' = "checkout"
            /\ s_result' = s_result
            /\ s_idx' = s_idx + 1
    /\ UNCHANGED <<crawlvars, ticketvars, trackervars, specs, b_specs, b_result, s_log, sbb, files,
                   v_last>>

\* A loop that would note a failed checkout and go on with the next branch.
ScanCheckoutContinues ==
    /\ b_pc = "checkout"
    /\ s_log' = Append(s_log, <<"checkout", b_specs[s_idx].name>>)
    /\ \E ok \in BOOLEAN :
          IF ok
          THEN b_pc' = "instantiate" /\ s_result' = s_result
          ELSE b_pc' = "loop" /\ s_result' = "Err"
    /\ UNCHANGED <<crawlvars, ticketvars, trackervars, specs, b_specs, b_result, s_idx, sbb, files,
                   v_last>>

\* scan.rs:223  branch.checkout(repo)?
ScanCheckout ==
    /\ b_pc = "checkout"
    /\ s_log' = Append(s_log, <<"checkout", b_specs[s_idx].name>>)
    /\ \E ok \in BOOLEAN :
          IF ok
          THEN b_pc' = "instantiate" /\ s_result' = s_result
          ELSE b_pc' = "done" /\ s_result' = "Err"
    /\ UNCHANGED <<crawlvars, ticketvars, trackervars, specs, b_specs, b_result, s_idx, sbb, files,
                   v_last>>

\* scan.rs:224  branch.instantiate(repo)?  (all_derivations returned Ok or not)
ScanInstantiate ==
    /\ b_pc = "instantiate"
    /\ s_log' = Append(s_log, <<"instantiate", b_specs[s_idx].name>>)
    /\ \E ok \in BOOLEAN :
          IF ok
          THEN b_pc' = "vulnix" /\ s_result' = s_result
          ELSE b_pc' = "done" /\ s_result' = "Err"
    /\ UNCHANGED <<crawlvars, ticketvars, trackervars, specs, b_specs, b_result, s_idx, sbb, files,
                   v_last>>

\* scan.rs:225-226  let scan = branch.vulnix(&drvfile, opt)?; sbb.insert(..)
ScanVulnix ==
    /\ b_pc = "vulnix"
    /\ s_log' = Append(s_log, <<"vulnix", b_specs[s_idx].name>>)
    /\ \E captured \in BOOLEAN, st \in ExitStatuses, write_ok \in BOOLEAN :
       \E parse_ok \in (IF captured THEN BOOLEAN ELSE {FALSE}) :
          LET r == vulnix(captured, st, parse_ok, write_ok)
          IN /\ v_last' = [called |-> TRUE, branch |-> b_specs[s_idx].name,
                           captured |-> captured, status |-> st,
                           parse_ok |-> parse_ok, write_ok |-> write_ok,
                           written |-> r.written, ret |-> r.ret]
             /\ files' = IF r.written THEN files \cup {b_specs[s_idx].name}
                                      ELSE files
             /\ IF r.ret = "Ok"
                THEN /\ sbb' = Append(sbb, b_specs[s_idx])
                     /\ b_pc' = "loop"
                     /\ s_result' = s_result
                ELSE /\ sbb' = sbb
                     /\ b_pc' = "done"
                     /\ s_result' = "Err"
    /\ UNCHANGED <<crawlvars, ticketvars, trackervars, specs, b_specs, b_result, s_idx>>

NextScan ==
    \/ BranchesInit
    \/ ScanLoop
    \/ ScanCheckout
    \/ ScanInstantiate
    \/ ScanVulnix

SpecScan == InitScan /\ [][NextScan]_vars

-----------------------------------------------------------------------------
\* Definitions shared by the properties

\* Every node reachable from the set S through inputDrvs edges.
RECURSIVE Closure(_)
Closure(S) ==
    LET T == S \cup UNION {InputDrvs(n) : n \in S}
    IN IF T = S THEN S ELSE Closure(T)

RECURSIVE Flatten(_)
Flatten(batches) ==
    IF batches = <<>> THEN <<>> ELSE Head(batches) \o Flatten(Tail(batches))

Returned == m_pc = "returned"

ReturnedOk == m_pc = "returned" /\ result = "Ok"

\* C1 (Completeness): when all_derivations has returned successfully, the
\* Seen set holds the root, every derivation produced by a successful
\* nix_instantiate of a dispatched attribute, and everything reachable from
\* them through inputDrvs.
Completeness == ReturnedOk => Closure({0} \cup resolved) \subseteq seen

\* C2 (Exit condition): once expand_runner has left its loop with Ok, the
\* queue is empty and INFLIGHT is 0.
ExitCondition ==
    (e_pc = "done" /\ e_result = "Ok") => (checkq = <<>> /\ INFLIGHT = 0)

\* C3 (No duplicate processing): no DrvPath occurs twice in the batches
\* handed to `nix show-derivation`, neither in two batches nor twice in one.
NoDuplicateProcessing ==
    Cardinality(Range(Flatten(queried))) = Len(Flatten(queried))

\* C3 witness: a crawl has returned Ok in which a derivation pushed by a
\* resolution worker was also pushed by the expansion worker as an input.
DuplicatePushesWitness ==
    /\ ReturnedOk
    /\ \E n \in resolved : \E m \in seen : n \in InputDrvs(m)

\* C5 (Inflight accounting at crawl end): when all_derivations has returned,
\* with Ok or Err, INFLIGHT is 0.
InflightZeroAtReturn == Returned => INFLIGHT = 0

\* INFLIGHT at return when at least one resolution worker exists.
InflightZeroAtReturnWithWorkers == (Returned /\ ncpu >= 2) => INFLIGHT = 0

\* C4 (Termination): under fair scheduling all_derivations eventually
\* returns.
Termination == <>Returned

\* Termination when at least one resolution worker exists.
TerminationWithWorkers == <>(Returned \/ ncpu = 1)

\* Workers that hold a finished attempt whose fetch_sub is still to come.
PendingDec == Cardinality({w \in Workers : w_pc[w] = "dec"})

\* C6 (Inflight Counter invariant): INFLIGHT is never negative and equals
\* the number of dispatch iterations started minus the number of worker
\* iterations finished (attempts that returned, less those whose fetch_sub is
\* the worker's next step).
InflightAccounting ==
    /\ INFLIGHT >= 0
    /\ INFLIGHT = dispatched - (completed - PendingDec)

\* C6 witness: two attributes were dispatched, one attempt has failed and
\* been accounted for, the other is still outstanding.
InflightAccountingWitness ==
    /\ dispatched = 2
    /\ failed = 1
    /\ completed = 1
    /\ PendingDec = 0
    /\ INFLIGHT = 1

\* C7 (Batch cap): no batch handed to `nix show-derivation`, and no batch
\* returned by take_max, holds more than 30 DrvPaths.
BatchCapRespected ==
    /\ Len(drvs) <= BatchCap
    /\ \A i \in 1..Len(queried) : Len(queried[i]) <= BatchCap

\* C7 witness: take_max returned a full batch that it filled while skipping
\* entries already seen, and left entries in the queue.
FullBatchWitness ==
    /\ scenario = "widedup"
    /\ e_pc = "query"
    /\ Len(queried) = 2
    /\ Len(drvs) = BatchCap
    /\ \E n \in Range(drvs) : n > WideDeps   \* queued behind seen entries
    /\ checkq # <<>>

\* C8 (Sink correctness): after a successful crawl the output holds exactly
\* the DrvPaths taken by the expansion worker that match R_VERSION, each on
\* one line.
SinkCorrectness ==
    ReturnedOk =>
        /\ Range(outfile) = {n \in seen : has_version(Path(n))}
        /\ Cardinality(Range(outfile)) = Len(outfile)

\* C8 witness: a successful crawl of several batches that wrote some
\* DrvPaths and filtered others.
SinkWitness ==
    /\ ReturnedOk
    /\ Len(queried) >= 2
    /\ outfile # <<>>
    /\ \E n \in seen : ~has_version(Path(n))

\* C9 (Failed resolution is non-fatal): when a crawl in which a
\* nix_instantiate -A call failed and no batch query failed has returned, it
\* returned Ok and the Seen set holds everything reachable from the root and
\* from the derivations of the successful resolutions.
FailedResolutionNonFatal ==
    (Returned /\ failed > 0 /\ e_result = "Ok") =>
        (result = "Ok" /\ Closure({0} \cup resolved) \subseteq seen)

\* A failed nix_instantiate -A call alone never makes the crawl fail.
FailedResolutionNoError ==
    (Returned /\ failed > 0 /\ e_result = "Ok") => result = "Ok"

\* C10 (Batch-query failure aborts the crawl): after a failed
\* `nix show-derivation` no batch is queried and no attribute dispatched, the
\* crawl returns (under fair scheduling) and returns Err, and once
\* all_derivations has returned no batch query and no nix_instantiate call
\* happens.
BatchFailureAborts ==
    /\ [][(e_result = "ErrQuery") =>
              (queried' = queried /\ dispatched' = dispatched)]_vars
    /\ [](e_result = "ErrQuery" => result # "Ok")
    /\ [][Returned => (queried' = queried /\ completed' = completed)]_vars
    /\ (e_result = "ErrQuery") ~> (Returned /\ result = "Err")

\* C10 witness: the second batch query failed after an attribute had been
\* dispatched, and all_derivations has returned Err.
BatchFailureWitness ==
    /\ Returned
    /\ result = "Err"
    /\ e_result = "ErrQuery"
    /\ Len(queried) = 2
    /\ dispatched > 0

-----------------------------------------------------------------------------
\* Orchestration

Max(a, b) == IF a >= b THEN a ELSE b

NoMoreTargets == SendersDropped   \* inst_tx dropped: expand_runner returned
NoMoreBatches == SendersDropped   \* out_tx dropped: expand_runner returned
WorkersFinished == \A w \in Workers : w_pc[w] = "done"
Started == e_pc # "unborn"

PoolSize ==
    Started => Cardinality({w \in Workers : w_pc[w] # "unborn"})
                   = Max(1, ncpu - 1)

-----------------------------------------------------------------------------
\* The sink

\* What output_runner has written through its BufWriter so far.
Written == outfile \o buf

\* C13 (Sink ordering): the sink writer receives the batches in the order
\* the expansion worker sent them: what it has written is the filtered lines
\* of a prefix of the sent batches, in sending order, and the batches still
\* in the channel are the rest, in sending order.
SinkOrdering ==
    o_result # "Err" =>
        LET k == Len(sent) - Len(out_ch)
        IN /\ k >= 0
           /\ out_ch = SubSeq(sent, k + 1, Len(sent))
           /\ Written = write_lines(Flatten(SubSeq(sent, 1, k)))

\* C13 witness: two different batches that both have output lines were sent,
\* and the sink has written them (more than one buffer) and finished.
SinkOrderingWitness ==
    /\ o_pc = "done"
    /\ o_result = "Ok"
    /\ \E i \in 1..Len(sent) : \E j \in (i + 1)..Len(sent) :
          /\ write_lines(sent[i]) # <<>>
          /\ write_lines(sent[j]) # <<>>
          /\ sent[i] # sent[j]
    /\ Len(outfile) > BufLines

-----------------------------------------------------------------------------
\* Scenarios

\* C14 (Scenario with 40 dependencies), as stated: a root with 40 distinct
\* inputs, no further inputs and no constituents is crawled with two batch
\* queries, one of 30 and one of 10 DrvPaths, and Seen ends with 41 entries.
FortyDepsTwoQueries ==
    (ReturnedOk /\ scenario = "wide" /\ Cardinality(InputDrvs(0)) = 40) =>
        /\ Len(queried) = 2
        /\ Len(queried[1]) = 30
        /\ Len(queried[2]) = 10
        /\ Cardinality(seen) = 41

\* C14 amended: the root itself is queried first, alone; the crawl makes
\* three batch queries, <<root>>, then BatchCap inputs, then the remaining
\* ones (30 and 10 for 40 inputs), and Seen ends with the root and all inputs
\* (41 entries).
FortyDepsThreeQueries ==
    (ReturnedOk /\ scenario = "wide") =>
        /\ Len(queried) = 3
        /\ queried[1] = <<0>>
        /\ Len(queried[2]) = BatchCap
        /\ Len(queried[3]) = Cardinality(InputDrvs(0)) - BatchCap
        /\ seen = {0} \cup InputDrvs(0)
        /\ Cardinality(seen) = Cardinality(InputDrvs(0)) + 1

\* C14 witness: the crawl of the root with its inputs has returned Ok after
\* its third batch query.
FortyDepsWitness ==
    /\ ReturnedOk
    /\ scenario = "wide"
    /\ Cardinality(InputDrvs(0)) > BatchCap
    /\ Len(queried) = 3

-----------------------------------------------------------------------------
\* Failures

\* C15 (Sink I/O failure aborts the crawl): once a write to the temp file
\* has failed, all_derivations does not return Ok.
SinkFailureAborts == (Returned /\ io_failed) => result = "Err"

\* The part of C15 that holds: a failure that writeln! reports makes
\* all_derivations return Err, whether expand_runner is still sending or not.
ReportedSinkFailureAborts == (Returned /\ o_result = "Err") => result = "Err"

\* DrvPath::new has panicked in some thread.
MalformedHit ==
    \/ result = "Panic"
    \/ e_result = "Panic"
    \/ \E w \in Workers : w_result[w] = "Panic"

StoppedWithFailure == m_pc = "returned" /\ result \in {"Err", "Panic"}

\* C16 (Malformed NodeId is fail-fast): once DrvPath::new has rejected a path
\* in the expansion worker or in a resolution worker, the crawl stops with a
\* failure: it never returns Ok and, under fair scheduling, it does return.
MalformedFailFast ==
    /\ [](MalformedHit => result # "Ok")
    /\ MalformedHit ~> StoppedWithFailure

\* The part of C16 that holds: a panic in the expansion worker stops the
\* crawl with a failure.
MalformedInputFailFast == (e_result = "Panic") ~> StoppedWithFailure

-----------------------------------------------------------------------------
\* Branches

\* C17 (Branch::vulnix saves iff parsing passed): after every call of
\* Branch::vulnix, whatever the exit status, the parse outcome and the write
\* outcome, vulnix.<name>.json has been written exactly when vulnix' output
\* parsed as JSON.
VulnixSavesIffParsed ==
    v_last.called => (v_last.written <=> v_last.parse_ok)

\* What the code does: the file is written exactly when the process ran, its
\* exit status was at most 2 and the write succeeded; the parse only decides
\* the return value.
VulnixSavesIffStatusOk ==
    v_last.called =>
        /\ v_last.written <=>
               (v_last.captured /\ status_ok(v_last.status) /\ v_last.write_ok)
        /\ v_last.ret = "Ok" <=> (v_last.written /\ v_last.parse_ok)

\* C20 (Branches::init rejects duplicate names): Branches::init returns Err
\* exactly when two of the given specs, at any two positions and whatever
\* their revs, have the same name; otherwise it returns the specs unchanged
\* and in the given order.
InitRejectsDuplicates ==
    b_result # "none" =>
        /\ b_result = "Err" <=>
               \E i \in 1..Len(specs) : \E j \in 1..Len(specs) :
                   i # j /\ specs[i].name = specs[j].name
        /\ b_result = "Ok" => b_specs = specs

\* C20 witness: Branches::init has rejected three specs of which the first
\* and the last have the same name and different revs.
InitRejectsDuplicatesWitness ==
    /\ b_result = "Err"
    /\ Len(specs) = 3
    /\ specs[1].name = specs[3].name
    /\ specs[1].rev # specs[3].rev
    /\ specs[2].name # specs[1].name

-----------------------------------------------------------------------------
\* Frame of an empty batch

\* expand_runner is working on a batch that take_max returned empty.
InEmptyBatch == e_pc \in {"query", "send", "push"} /\ drvs = <<>>

\* C18 (Empty batch), as stated: when take_max yields an empty batch, the
\* steps of expand_runner up to the next loop test run no nix show-derivation
\* process, send no batch to the sink channel, push nothing onto checkq, and
\* leave Seen and INFLIGHT unchanged.
EmptyBatchOnlyContinues ==
    /\ [][(ExpandTake /\ drvs' = <<>>) =>
              (seen' = seen /\ INFLIGHT' = INFLIGHT)]_vars
    /\ [][(InEmptyBatch /\ Expand) =>
              /\ queried' = queried
              /\ sent' = sent
              /\ out_ch' = out_ch
              /\ checkq' = checkq
              /\ seen' = seen
              /\ INFLIGHT' = INFLIGHT]_vars

\* C18 amended: as stated, except that the empty batch is sent to the sink
\* channel (nix.rs:173 runs for every batch), where output_runner writes
\* nothing for it.
EmptyBatchIsForwarded ==
    /\ [][(ExpandTake /\ drvs' = <<>>) =>
              (seen' = seen /\ INFLIGHT' = INFLIGHT)]_vars
    /\ [][(InEmptyBatch /\ Expand) =>
              /\ queried' = queried
              /\ checkq' = checkq
              /\ seen' = seen
              /\ INFLIGHT' = INFLIGHT
              /\ dispatched' = dispatched
              /\ IF e_pc = "send"
                 THEN sent' = Append(sent, <<>>) /\ out_ch' = Append(out_ch, <<>>)
                 ELSE sent' = sent /\ out_ch' = out_ch]_vars
    /\ [][(OutputRecv /\ Head(out_ch) = <<>>) =>
              (outfile' = outfile /\ buf' = buf)]_vars

\* C18 witness: expand_runner has taken an empty batch from a non-empty
\* queue and has sent it to the sink channel.
EmptyBatchWitness ==
    /\ e_pc = "push"
    /\ drvs = <<>>
    /\ sent # <<>>
    /\ sent[Len(sent)] = <<>>
    /\ seen # {}

-----------------------------------------------------------------------------
\* Single node

SingleNode == scenario \in {"single", "singlev"}

\* C19 (Single-node scenario): for a root without inputs and without
\* constituents the crawl returns under fair scheduling; when it returns Ok
\* it has made exactly one batch query, of the root alone, and the output
\* holds the root if and only if the root's path has a version.
SingleNodeCrawl ==
    /\ []((ReturnedOk /\ SingleNode) =>
              /\ queried = <<(<<0>>)>>
              /\ seen = {0}
              /\ 0 \in Range(outfile) <=> has_version(Path(0))
              /\ Range(outfile) \subseteq {0}
              /\ Len(outfile) <= 1)
    /\ [](SingleNode => Len(queried) <= 1)
    /\ SingleNode ~> Returned

\* C19 witness: the crawl of a single versioned root has returned Ok with
\* the root in the output.
SingleNodeWitness ==
    /\ ReturnedOk
    /\ scenario = "singlev"
    /\ has_version(Path(0))
    /\ outfile = <<0>>

-----------------------------------------------------------------------------
\* The counter and the instantiate channel

\* Attributes a worker has received and not yet decremented for.
InHand == Cardinality({w \in Workers : w_pc[w] \in {"call", "dec"}})

\* C23 (Increment before submit): INFLIGHT is at least the number of
\* attributes waiting in the instantiate channel plus the number a worker has
\* received and not yet decremented for; so INFLIGHT = 0 implies that no
\* attribute is queued or being resolved.
IncrementBeforeSubmit ==
    /\ INFLIGHT >= Len(inst_ch) + InHand
    /\ INFLIGHT = 0 => (inst_ch = <<>> /\ InHand = 0)

\* C23 witness: one attribute waits in the channel while another is being
\* resolved, and the counter covers both.
IncrementBeforeSubmitWitness ==
    /\ Len(inst_ch) = 1
    /\ InHand = 1
    /\ INFLIGHT = 2

\* Attributes dispatched and not yet accounted for by a fetch_sub.
Outstanding == Len(inst_ch) + InHand

\* C28 (Counter width): whatever number of attributes is outstanding,
\* INFLIGHT has not wrapped around: it equals that number (or exceeds it by
\* the one whose send is the next step), so it is never <= 0 while an
\* attribute is outstanding.
CounterNeverWraps ==
    /\ INFLIGHT >= Outstanding
    /\ Outstanding > 0 => INFLIGHT > 0
    /\ (e_pc = "done" /\ e_result = "Ok") => Outstanding = 0

-----------------------------------------------------------------------------
\* Attributes whose instantiate.send (nix.rs:179) succeeded.
Submitted ==
    dispatched - (IF e_pc = "sendc" \/ e_result = "ErrSend" THEN 1 ELSE 0)

InCall == Cardinality({w \in Workers : w_pc[w] = "call"})

TargetsConserved ==
    /\ Submitted = Len(inst_ch) + InCall + completed
    /\ \A w \in Workers : w_pc[w] = "done" => (e_pc = "done" /\ inst_ch = <<>>)
    /\ Returned => completed = dispatched

\* C24  Every attribute the expansion worker dispatches is received by one
\* resolution worker and attempted once: the attributes sent are exactly those
\* waiting in the channel, those in a worker's nix-instantiate call and those
\* already attempted, none is lost and none is counted twice; a worker ends
\* only after the expansion worker has finished and the channel is empty, and
\* at the return every dispatched attribute has been attempted.
TargetsAttemptedOnce == TargetsConserved

\* The same for a machine with a resolution worker (two CPUs or more).
TargetsAttemptedOnceWithWorkers == ncpu >= 2 => TargetsConserved

\* C25  Only the dequeue step of the expansion worker (Seen::take_max in
\* expand_runner) changes the set of seen derivations; every step of a
\* resolution worker, of the output thread and of all_derivations leaves it
\* unchanged, and no element is ever removed from it.
SeenOwnership ==
    [][/\ seen' # seen => ExpandTake
       /\ (Main \/ Output \/ \E w \in Workers : Worker(w)) => seen' = seen
       /\ seen \subseteq seen']_vars

SeenOwnershipWitness ==
    /\ Cardinality(seen) >= 2
    /\ completed >= 1
    /\ outfile # <<>>
    /\ ReturnedOk

\* C27  A resolution worker pushes the derivation it resolved onto the queue
\* before it decrements INFLIGHT: whenever INFLIGHT is 0, every derivation
\* produced by a successful nix-instantiate call is in the queue or already
\* in the set of seen derivations.
PushBeforeDecrement ==
    INFLIGHT = 0 => resolved \subseteq (Range(checkq) \cup seen)

PushBeforeDecrementWitness ==
    /\ INFLIGHT = 0
    /\ resolved # {}
    /\ resolved \subseteq Range(checkq)
    /\ resolved \cap seen = {}

-----------------------------------------------------------------------------
ScanSteps == <<"checkout", "instantiate", "vulnix">>

\* The steps of a scan of the branches sp that runs to its end.
FullScanLog(sp) ==
    [k \in 1..(3 * Len(sp)) |->
        <<ScanSteps[((k - 1) % 3) + 1], sp[((k - 1) \div 3) + 1].name>>]

IsPrefix(s, t) == Len(s) <= Len(t) /\ \A k \in 1..Len(s) : s[k] = t[k]

\* C26  Branches::scan handles the branches one at a time in the given order,
\* each as checkout, instantiate, vulnix: the steps executed so far are a
\* prefix of that sequence.  The first failing step ends the scan with an
\* error: afterwards no further step is executed and nothing is added to the
\* result map; a map is returned only with Ok, and then it holds every branch.
ScanInOrder ==
    /\ [](/\ IsPrefix(s_log, FullScanLog(b_specs))
          /\ s_result = "Err" => b_pc = "done"
          /\ s_result = "Ok" => /\ sbb = b_specs
                                /\ s_log = FullScanLog(b_specs))
    /\ [][s_result = "Err" => UNCHANGED <<s_log, sbb, s_result>>]_vars

ScanInOrderWitness ==
    /\ s_result = "Err"
    /\ Len(b_specs) = 2
    /\ s_log = <<(<<"checkout", b_specs[1].name>>),
                 (<<"instantiate", b_specs[1].name>>)>>
    /\ sbb = <<>>
    /\ b_pc = "done"

-----------------------------------------------------------------------------
\* C29  After show_derivation has failed, the error reaches the caller
\* without a resolution worker taking up an attribute that was dispatched
\* before the failure and is still waiting in the channel.
ErrorPropagatesImmediately ==
    [][e_result = "ErrQuery" =>
          \A w \in Workers : ~(w_pc[w] = "recv" /\ w_pc'[w] = "call")]_vars

-----------------------------------------------------------------------------
QueryFailed == e_result \in {"ErrQuery", "Panic"}

\* The batches whose show_derivation call returned Ok.
SucceededBatches ==
    IF QueryFailed THEN SubSeq(queried, 1, Len(queried) - 1) ELSE queried

\* The batch whose show_derivation call failed.
FailedBatch == IF QueryFailed THEN queried[Len(queried)] ELSE <<>>

NonEmptyBatches(bs) == SelectSeq(bs, LAMBDA b : b # <<>>)

\* C30  A batch is sent to the output channel only after its show_derivation
\* call succeeded, and before its inputs are pushed and its attributes
\* dispatched: every derivation written to the output belongs to a batch that
\* was queried successfully, and the derivations of a failing batch are in
\* the set of seen derivations but are never sent or written.
ForwardAfterQuery ==
    /\ IsPrefix(NonEmptyBatches(sent), SucceededBatches)
    /\ e_pc \in {"push", "inc", "sendc"} =>
          (sent # <<>> /\ sent[Len(sent)] = drvs)
    /\ Range(Written) \subseteq Range(Flatten(SucceededBatches))
    /\ Range(FailedBatch) \subseteq seen
    /\ Range(FailedBatch) \cap Range(Flatten(sent)) = {}
    /\ Range(FailedBatch) \cap Range(Written) = {}

ForwardAfterQueryWitness ==
    /\ e_result = "ErrQuery"
    /\ Returned
    /\ Len(queried) = 2
    /\ sent = <<queried[1]>>
    /\ \E n \in Range(FailedBatch) : has_version(Path(n))

-----------------------------------------------------------------------------
\* ticket_list and Ticket::body (ticket.rs)

\* advisory.rs:11-15  enum Advisory { CVE { y: u16, n: u64 } }
Cve2017_100 == [y |-> 2017, n |-> 100]
Cve2018_9 == [y |-> 2018, n |-> 9]
Cve2018_10 == [y |-> 2018, n |-> 10]

Advisories == {Cve2017_100, Cve2018_9, Cve2018_10}

\* advisory.rs:11  #[derive(PartialOrd, Ord)]: the year, then the number
Advisory_cmp(a, b) ==
    IF a.y < b.y THEN "Less"
    ELSE IF a.y > b.y THEN "Greater"
    ELSE IF a.n < b.n THEN "Less"
    ELSE IF a.n > b.n THEN "Greater"
    ELSE "Equal"

\* package.rs:9-14  struct Package { name, v_idx }; both packages have their
\* version at the same index, so the derived Ord compares the names.
Packages == {"bash-4.4", "zlib-1.2"}

PackageRank(p) == IF p = "bash-4.4" THEN 1 ELSE 2

Package_cmp(p, q) ==
    IF PackageRank(p) < PackageRank(q) THEN "Less"
    ELSE IF PackageRank(p) > PackageRank(q) THEN "Greater"
    ELSE "Equal"

\* scan.rs:39-45  struct Branch { name, rev } with the derived Ord
BranchA == [name |-> "a", rev |-> "r1"]
BranchB == [name |-> "b", rev |-> "r1"]

TicketBranches == {BranchA, BranchB}

NameRank(n) == IF n = "a" THEN 1 ELSE 2

RevRank(r) == IF r = "r1" THEN 1 ELSE 2

Branch_cmp(a, b) ==
    IF NameRank(a.name) < NameRank(b.name) THEN "Less"
    ELSE IF NameRank(a.name) > NameRank(b.name) THEN "Greater"
    ELSE IF RevRank(a.rev) < RevRank(b.rev) THEN "Less"
    ELSE IF RevRank(a.rev) > RevRank(b.rev) THEN "Greater"
    ELSE "Equal"

\* Option<f32>; a score is held in tenths (9.8 is 98).
None == [some |-> FALSE, v |-> 0]

Some(x) == [some |-> TRUE, v |-> x]

unwrap_or(opt, d) == IF opt.some THEN opt.v ELSE d

\* HashMap::get
map_get(m, k) == IF k \in DOMAIN m THEN Some(m[k]) ELSE None

\* HashMap::extend: a key of m2 replaces the same key of m
map_extend(m, m2) ==
    [k \in DOMAIN m \cup DOMAIN m2 |-> IF k \in DOMAIN m2 THEN m2[k] ELSE m[k]]

\* HashMap::insert
map_insert(m, key, val) ==
    [k \in DOMAIN m \cup {key} |-> IF k = key THEN val ELSE m[k]]

\* Some order in which a HashMap hands out its keys.
SetToSeq(S) == CHOOSE q \in [1..Cardinality(S) -> S] : Range(q) = S

\* ticket.rs:168  adv.sort() on Vec<(Advisory, Branch)>: the tuple order
Pair_cmp(p, q) ==
    IF Advisory_cmp(p.adv, q.adv) # "Equal" THEN Advisory_cmp(p.adv, q.adv)
    ELSE Branch_cmp(p.branch, q.branch)

\* ticket.rs:180  |a, b| a.pkg.cmp(&b.pkg)
Ticket_cmp(a, b) == Package_cmp(a.pkg, b.pkg)

\* ticket.rs:143-144  score.unwrap_or(-1.0), in tenths
UnwrapDefault == -10

\* A comparison that would put the lower score first.
cmp_score_ascending(a, b) ==
    LET left == unwrap_or(a.detail.score, UnwrapDefault)
        right == unwrap_or(b.detail.score, UnwrapDefault)
    IN IF left > right THEN "Greater"
       ELSE IF left < right THEN "Less"
       ELSE Advisory_cmp(a.adv, b.adv)

\* ticket.rs:142-150  cmp_score
cmp_score(a, b) ==
    LET left == unwrap_or(a.detail.score, UnwrapDefault)
        right == unwrap_or(b.detail.score, UnwrapDefault)
    IN IF left > right THEN "Less"
       ELSE IF left < right THEN "Greater"
       ELSE Advisory_cmp(a.adv, b.adv)

\* The comparison a sort is called with.
compare(by, a, b) ==
    CASE by = "pair" -> Pair_cmp(a, b)
      [] by = "pkg" -> Ticket_cmp(a, b)
      [] by = "score" -> cmp_score(a, b)
      [] by = "branch" -> Branch_cmp(a, b)

\* slice::sort / sort_by / sort_unstable_by: element i goes behind the
\* elements that are less and the equal ones before it.
sort_by(s, by) ==
    LET pos(i) == 1 + Cardinality({j \in 1..Len(s) :
                        \/ compare(by, s[j], s[i]) = "Less"
                        \/ compare(by, s[j], s[i]) = "Equal" /\ j < i})
    IN [k \in 1..Len(s) |-> s[CHOOSE i \in 1..Len(s) : pos(i) = k]]

\* ticket.rs:159-161  one VulnixRes of a branch: its advisories go to the
\* package's entry of pkgmap, its scores into the one ScoreMap
add_result(st, branch, res) ==
    LET old == IF res.pkg \in DOMAIN st.pkgmap THEN st.pkgmap[res.pkg]
                                                ELSE <<>>
        new == old \o [i \in 1..Len(res.affected_by) |->
                          [adv |-> res.affected_by[i], branch |-> branch]]
    IN [pkgmap |-> map_insert(st.pkgmap, res.pkg, new),
        scores |-> map_extend(st.scores, res.cvssv3_basescore)]

\* ticket.rs:158-162  for res in scan_results { .. }
RECURSIVE add_results(_, _, _)
add_results(st, branch, results) ==
    IF results = <<>> THEN st
    ELSE add_results(add_result(st, branch, Head(results)), branch,
                     Tail(results))

\* ticket.rs:157-163  for (branch, scan_results) in scan_by_branch.drain(),
\* the branches coming in the order todo
RECURSIVE drain(_, _, _)
drain(st, sbb_in, todo) ==
    IF todo = <<>> THEN st
    ELSE drain(add_results(st, Head(todo), sbb_in[Head(todo)]), sbb_in,
               Tail(todo))

\* ticket.rs:120-125  Detail::new
Detail_new(score) == [branches |-> <<>>, score |-> score]

\* ticket.rs:170-176  for (advisory, branch) in adv: the Detail is made with
\* the advisory's score when the advisory comes first, then gets the branch
RECURSIVE build_affected(_, _, _)
build_affected(acc, pairs, sc) ==
    IF pairs = <<>> THEN acc
    ELSE LET p == Head(pairs)
             d == IF p.adv \in DOMAIN acc THEN acc[p.adv]
                  ELSE Detail_new(map_get(sc, p.adv))
             d2 == [d EXCEPT !.branches = Append(@, p.branch)]
         IN build_affected(map_insert(acc, p.adv, d2), Tail(pairs), sc)

\* ticket.rs:167-178  the closure that makes the ticket of one package
make_ticket(pkg, adv, sc) ==
    [pkg |-> pkg, affected |-> build_affected(<<>>, sort_by(adv, "pair"), sc)]

\* ticket.rs:165-180  pkgmap.into_iter().map(..).collect(), then
\* tickets.sort_by(|a, b| a.pkg.cmp(&b.pkg))
collect(st) ==
    LET pkgs == SetToSeq(DOMAIN st.pkgmap)
        unsorted == [k \in 1..Len(pkgs) |->
                        make_ticket(pkgs[k], st.pkgmap[pkgs[k]], st.scores)]
    IN sort_by(unsorted, "pkg")

\* ticket.rs:152-182  ticket_list, for a map that drains in the order todo
ticket_list(sbb_in, todo) ==
    collect(drain([pkgmap |-> <<>>, scores |-> <<>>], sbb_in, todo))

\* ticket.rs:76-86  Ticket::body: the advisories in the order of their lines;
\* rev picks one of two orders in which the map hands out its entries
body(t, rev) ==
    LET keys == IF rev THEN Reverse(SetToSeq(DOMAIN t.affected))
                       ELSE SetToSeq(DOMAIN t.affected)
        adv == [k \in 1..Len(keys) |->
                   [adv |-> keys[k], detail |-> t.affected[keys[k]]]]
        sorted == sort_by(adv, "score")
    IN [k \in 1..Len(sorted) |-> sorted[k].adv]

\* The inputs ticket_list is called with: what vulnix reported per branch.

\* The score one vulnix run may report for an advisory, if any.
ScoreChoices(b, a) ==
    IF b = BranchA
    THEN CASE a = Cve2018_10 -> {None, Some(-20), Some(0), Some(50), Some(90)}
           [] a = Cve2018_9 -> {None, Some(0), Some(50)}
           [] OTHER -> {None, Some(50)}
    ELSE IF a = Cve2018_10 THEN {None, Some(50)} ELSE {None}

\* Whether a package shows up in a branch, and the advisories listed for it.
AffectedChoices(pkg) ==
    {[present |-> FALSE, affected_by |-> <<>>]} \cup
    {[present |-> TRUE, affected_by |-> l] :
        l \in IF pkg = "bash-4.4"
              THEN {<<>>, <<Cve2018_10>>, <<Cve2018_9>>,
                    <<Cve2018_10, Cve2018_9>>, <<Cve2018_9, Cve2018_10>>,
                    <<Cve2018_10, Cve2017_100, Cve2018_9>>}
              ELSE {<<Cve2018_10>>}}

\* scan.rs:27-33  a VulnixRes with the scores of the advisories it lists
VulnixRes(pkg, c, sc) ==
    IF c.present
    THEN <<[pkg |-> pkg, affected_by |-> c.affected_by,
            cvssv3_basescore |->
                [a \in {x \in Range(c.affected_by) : sc[x].some} |-> sc[a].v]]>>
    ELSE <<>>

BranchScores(b) ==
    {sc \in [Advisories -> UNION {ScoreChoices(b, a) : a \in Advisories}] :
        \A a \in Advisories : sc[a] \in ScoreChoices(b, a)}

\* The result lists of one vulnix run.
BranchResults(b) ==
    {VulnixRes("bash-4.4", c1, sc) \o VulnixRes("zlib-1.2", c2, sc) :
        c1 \in AffectedChoices("bash-4.4"),
        c2 \in AffectedChoices("zlib-1.2"),
        sc \in BranchScores(b)}

\* scan.rs:35  ScanByBranch
ScanInputs ==
    {[b \in TicketBranches |-> IF b = BranchA THEN ra ELSE rb] :
        ra \in BranchResults(BranchA), rb \in BranchResults(BranchB)}

\* The orders in which drain() may hand out the branches.
DrainOrders == {<<BranchA, BranchB>>, <<BranchB, BranchA>>}

\* ticket_list is about to be called; no crawl and no scan is running.
InitTicket ==
    /\ InitCrawl({"single"})
    /\ ncpu = 1
    /\ ScanIdle
    /\ scan_by_branch \in ScanInputs
    /\ t_todo \in DrainOrders
    /\ pkgmap = <<>>
    /\ scores = <<>>
    /\ tickets = <<>>
    /\ t_body = <<>>
    /\ t_pc = "drain"
    /\ TrackerIdle

\* ticket.rs:157-163  one round of the drain loop
TicketDrain ==
    /\ t_pc = "drain"
    /\ t_todo # <<>>
    /\ LET st == add_results([pkgmap |-> pkgmap, scores |-> scores],
                             Head(t_todo), scan_by_branch[Head(t_todo)])
       IN /\ pkgmap' = st.pkgmap
          /\ scores' = st.scores
    /\ t_todo' = Tail(t_todo)
    /\ UNCHANGED <<crawlvars, scanvars, trackervars, scan_by_branch, tickets, t_body, t_pc>>

\* ticket.rs:165-181  the tickets are made and sorted
TicketCollect ==
    /\ t_pc = "drain"
    /\ t_todo = <<>>
    /\ tickets' = collect([pkgmap |-> pkgmap, scores |-> scores])
    /\ t_pc' = "collected"
    /\ UNCHANGED <<crawlvars, scanvars, trackervars, scan_by_branch, t_todo, pkgmap, scores,
                   t_body>>

\* ticket.rs:65-104  body() of every ticket returned
TicketBody ==
    /\ t_pc = "collected"
    /\ \E rev \in BOOLEAN :
          t_body' = [k \in 1..Len(tickets) |-> body(tickets[k], rev)]
    /\ t_pc' = "done"
    /\ UNCHANGED <<crawlvars, scanvars, trackervars, scan_by_branch, t_todo, pkgmap, scores,
                   tickets>>

NextTicket ==
    \/ TicketDrain
    \/ TicketCollect
    \/ TicketBody

SpecTicket == InitTicket /\ [][NextTicket]_vars

-----------------------------------------------------------------------------
Collected == t_pc \in {"collected", "done"}

\* The packages some branch reports.
FoundPackages ==
    UNION {{scan_by_branch[b][k].pkg : k \in 1..Len(scan_by_branch[b])} :
              b \in TicketBranches}

\* The branches that report advisory a for package p.
Reporting(p, a) ==
    {b \in TicketBranches :
        \E k \in 1..Len(scan_by_branch[b]) :
            /\ scan_by_branch[b][k].pkg = p
            /\ a \in Range(scan_by_branch[b][k].affected_by)}

\* The scores some branch records for advisory a.
Recorded(a) ==
    UNION {{scan_by_branch[b][k].cvssv3_basescore[a] :
               k \in {j \in 1..Len(scan_by_branch[b]) :
                         a \in DOMAIN scan_by_branch[b][j].cvssv3_basescore}} :
              b \in TicketBranches}

\* No two branches record different scores for an advisory.
ScoresAgree == \A a \in Advisories : Cardinality(Recorded(a)) <= 1

StrictlyAscending(s, by) ==
    \A k \in 1..(Len(s) - 1) : compare(by, s[k], s[k + 1]) = "Less"

TicketOk(t) ==
    /\ DOMAIN t.affected = {a \in Advisories : Reporting(t.pkg, a) # {}}
    /\ \A a \in DOMAIN t.affected :
          /\ Range(t.affected[a].branches) = Reporting(t.pkg, a)
          /\ StrictlyAscending(t.affected[a].branches, "branch")
          /\ IF Recorded(a) = {}
             THEN t.affected[a].score = None
             ELSE /\ t.affected[a].score.some
                  /\ t.affected[a].score.v \in Recorded(a)

Consolidated ==
    /\ {tickets[k].pkg : k \in 1..Len(tickets)} = FoundPackages
    /\ StrictlyAscending(tickets, "pkg")
    /\ \A k \in 1..Len(tickets) : TicketOk(tickets[k])
    /\ \A todo \in DrainOrders : ticket_list(scan_by_branch, todo) = tickets

\* C21  For every ScanByBranch map, ticket_list returns one ticket per
\* package found in some branch, in ascending package order; a ticket's
\* affected map has the advisories reported for the package in some branch,
\* each with the branches reporting it in ascending order and the score
\* recorded for it (none if none is recorded); and the result is the same
\* for every order in which the map hands out its branches.
TicketListConsolidates == Collected => Consolidated

\* The same for maps in which the branches agree on every score.
TicketListConsolidatesAgreed == (Collected /\ ScoresAgree) => Consolidated

-----------------------------------------------------------------------------
Rendered == t_pc = "done"

\* Line i of a ticket's body may stand before line j.
MayPrecede(t, ai, aj) ==
    LET si == t.affected[ai].score
        sj == t.affected[aj].score
    IN /\ ~si.some => ~sj.some
       /\ (si.some /\ sj.some) => si.v >= sj.v
       /\ (si = sj) => Advisory_cmp(ai, aj) = "Less"

BodyOrdered(k) ==
    /\ Range(t_body[k]) = DOMAIN tickets[k].affected
    /\ Len(t_body[k]) = Cardinality(DOMAIN tickets[k].affected)
    /\ \A i, j \in 1..Len(t_body[k]) :
          i < j => MayPrecede(tickets[k], t_body[k][i], t_body[k][j])

\* C22  Ticket::body lists the advisories of a ticket in the order of
\* cmp_score: a higher score before a lower one, every advisory without a
\* score after every advisory with a score, equal scores by ascending
\* advisory (year, then number).
BodyInScoreOrder == Rendered => \A k \in 1..Len(tickets) : BodyOrdered(k)

NonNegativeScores ==
    \A k \in 1..Len(tickets) : \A a \in DOMAIN tickets[k].affected :
        tickets[k].affected[a].score.v >= 0

\* The same for tickets whose scores are 0 or more.
BodyInScoreOrderNonNegative ==
    (Rendered /\ NonNegativeScores) =>
        \A k \in 1..Len(tickets) : BodyOrdered(k)

-----------------------------------------------------------------------------
\* Tracker::create_issue (tracker.rs)

\* The package of the ticket create_issue is called with (tkt.name()).
TicketName == "bash-4.4"

\* Issues the tracker may hold before the call: whether the issue is open and
\* is a labelled "Vulnerability roundup" issue, and the package in its title.
IssuePool ==
    {[number |-> 1, pkg |-> "bash-4.4", open |-> TRUE, roundup |-> TRUE],
     [number |-> 2, pkg |-> "zlib-1.2", open |-> TRUE, roundup |-> TRUE],
     [number |-> 3, pkg |-> "bash-4.4", open |-> FALSE, roundup |-> TRUE],
     [number |-> 4, pkg |-> "bash-4.4", open |-> TRUE, roundup |-> TRUE]}

\* The number the tracker gives to the next issue.
NewNumber == Cardinality(IssuePool) + 1

\* tracker.rs:82-88  the issue made from IssueOptions: title tkt.summary()
\* ("Vulnerability roundup <n>: <name>: ..", ticket.rs:56-63), label
\* "1.severity: security", open
new_issue(name) ==
    [number |-> NewNumber, pkg |-> name, open |-> TRUE, roundup |-> TRUE]

\* tracker.rs:97-103  the query: is:open, the label, in:title
\* "Vulnerability roundup " and " <name>: "
matches(issue, name) == issue.open /\ issue.roundup /\ issue.pkg = name

\* tracker.rs:110  format!("#{}", rel.number)
issue_ref(n) == <<"#", n>>

\* tracker.rs:104-111  the search result, collected into a Vec<String>
search(issues, name) ==
    LET hits == SortedSeq({x.number : x \in {y \in issues : matches(y, name)}})
    IN [k \in 1..Len(hits) |-> issue_ref(hits[k])]

\* create_issue has been called: future::join has started both requests.
InitTracker ==
    /\ InitCrawl({"single"})
    /\ ncpu = 1
    /\ ScanIdle
    /\ TicketIdle
    /\ gh_issues \in SUBSET IssuePool
    /\ gh_comments = <<>>
    /\ create_pc = "pending"
    /\ iss = [ok |-> FALSE, number |-> 0]
    /\ related_pc = "pending"
    /\ related = [ok |-> FALSE, list |-> <<>>]
    /\ k_pc = "join"
    /\ k_result = "none"

\* tracker.rs:81-94  gh_create: the tracker creates the issue, or fails
GhCreate ==
    /\ create_pc = "pending"
    /\ \E ok \in BOOLEAN :
          IF ok
          THEN /\ gh_issues' = gh_issues \cup {new_issue(TicketName)}
               /\ iss' = [ok |-> TRUE, number |-> NewNumber]
          ELSE /\ gh_issues' = gh_issues
               /\ iss' = [ok |-> FALSE, number |-> 0]
    /\ create_pc' = "done"
    /\ UNCHANGED <<crawlvars, scanvars, ticketvars, gh_comments, related_pc,
                   related, k_pc, k_result>>

\* tracker.rs:96-117  gh_related: the tracker answers the search from the
\* issues it holds at that moment, or fails
GhRelated ==
    /\ related_pc = "pending"
    /\ \E ok \in BOOLEAN :
          related' = IF ok
                     THEN [ok |-> TRUE, list |-> search(gh_issues, TicketName)]
                     ELSE [ok |-> FALSE, list |-> <<>>]
    /\ related_pc' = "done"
    /\ UNCHANGED <<crawlvars, scanvars, ticketvars, gh_issues, gh_comments,
                   create_pc, iss, k_pc, k_result>>

\* tracker.rs:137-140,143  join(..).await; iss?; related?;
\* if !related.is_empty() { .. }  Ok((iss.number, iss.html_url))
CreateIssueJoin ==
    /\ k_pc = "join"
    /\ create_pc = "done"
    /\ related_pc = "done"
    /\ IF ~iss.ok \/ ~related.ok
       THEN k_pc' = "returned" /\ k_result' = "Err"
       ELSE IF ~is_empty(related.list)
       THEN k_pc' = "comment" /\ k_result' = k_result
       ELSE k_pc' = "returned" /\ k_result' = "Ok"
    /\ UNCHANGED <<crawlvars, scanvars, ticketvars, gh_issues, gh_comments,
                   create_pc, iss, related_pc, related>>

\* tracker.rs:141  self.gh_comment(iss.number, &related).await?
\* (tracker.rs:119-134): "See also: " and the list
GhComment ==
    /\ k_pc = "comment"
    /\ \E ok \in BOOLEAN :
          IF ok
          THEN /\ gh_comments' = Append(gh_comments,
                                    [number |-> iss.number,
                                     see_also |-> related.list])
               /\ k_result' = "Ok"
          ELSE /\ gh_comments' = gh_comments
               /\ k_result' = "Err"
    /\ k_pc' = "returned"
    /\ UNCHANGED <<crawlvars, scanvars, ticketvars, gh_issues, create_pc, iss,
                   related_pc, related>>

NextTracker ==
    \/ GhCreate
    \/ GhRelated
    \/ CreateIssueJoin
    \/ GhComment

SpecTracker == InitTracker /\ [][NextTracker]_vars

-----------------------------------------------------------------------------
\* A comment is posted, or about to be, only after both requests succeeded
\* and the search found something; it goes to the new issue with the list
\* found.
SeeAlsoGuarded ==
    /\ (k_pc = "comment" \/ gh_comments # <<>>) =>
          /\ create_pc = "done" /\ iss.ok
          /\ related_pc = "done" /\ related.ok
          /\ related.list # <<>>
    /\ \A i \in 1..Len(gh_comments) :
          /\ gh_comments[i].number = iss.number
          /\ gh_comments[i].see_also = related.list

\* C31  create_issue runs gh_create and gh_related concurrently; however the
\* two requests interleave at the tracker, the "See also" comment is posted
\* only after both succeeded and only for a non-empty search result, and the
\* list it posts does not contain the newly created issue.
SeeAlsoExcludesNewIssue ==
    /\ SeeAlsoGuarded
    /\ \A i \in 1..Len(gh_comments) :
          issue_ref(iss.number) \notin Range(gh_comments[i].see_also)

====
